---- MODULE Spec2Model ----
(***************************************************************************)
(* Model of the JESA tender-evaluation pipeline:                           *)
(*   utils/scorer.py   ProposalScorer (validate_weights,                   *)
(*                     calculate_weighted_score, rank_suppliers,           *)
(*                     generate_summary_statistics)                        *)
(*   utils/analyzer.py ProposalAnalyzer (analyze_proposal, _make_api_call, *)
(*                     _parse_json_response)                               *)
(*   app.py            display_analysis_section (the run over N suppliers) *)
(*                     and display_sidebar (the weight sliders)            *)
(*                                                                         *)
(* Specifications.  SpecScore, SpecRank, SpecParse and SpecAnalyze call    *)
(* one entry point on arguments drawn from bounded sets; SpecRun is a run  *)
(* of the analysis section; SpecSession is a session in which the sliders  *)
(* are moved, a run is started and the user may ask to cancel it.          *)
(*                                                                         *)
(* Numbers.  Scores are integers.  A weight is an integer number of        *)
(* 1/WeightScale percentage points, so that totals inside and outside the  *)
(* +-0.01 tolerance of validate_weights both exist.  A weighted score is   *)
(* an integer number of hundredths (8275 is 82.75), the resolution of      *)
(* round(final_score, 2).  Sums and quotients are exact; the one place     *)
(* where binary floating point decides the outcome, a final score that     *)
(* lies exactly half way between two hundredths, is a choice between the   *)
(* two neighbours (Round2).                                                *)
(***************************************************************************)
EXTENDS Integers, Sequences, FiniteSets, TLC

VARIABLES
    op,         \* harnesses: which entry point has been called
    analysis,   \* scorer harness: the scorecard argument
    weights,    \* the weights argument; in a run, session_state.evaluation_weights
    ret,        \* scorer harness: what the call returned
    analyses,   \* the list of scorecards handed to rank_suppliers
    ranked,     \* the list rank_suppliers returned
    rank_raised, \* whether rank_suppliers raised to its caller instead
    summary,    \* what generate_summary_statistics returned
    response,   \* parser harness: the text of the model's response
    parsed,     \* parser harness: what _parse_json_response did
    pc,         \* run: where display_analysis_section stands
    proposals,  \* run: session_state.supplier_proposals
    idx,        \* run: the proposal the loop is at (1-based)
    results,    \* run: the list of scorecards collected so far
    analysed,   \* run: the proposals analyze_proposal was called for, in order
    attempt,    \* run: the attempt counter of the _make_api_call in progress
    call_log,   \* run: the requests the latest _make_api_call has sent
    sleeps,     \* run: the time.sleep delays of the latest _make_api_call
    api_ret,    \* run: how the latest _make_api_call ended
    failed,     \* run: the proposals whose _make_api_call raised
    cancel_at,  \* run: the proposal during whose analysis the user asked to
                \* cancel the run (0: never asked)
    sliders     \* session: the values of the five weight sliders of the sidebar

scorerVars == <<op, analysis, ret>>
rankVars == <<ranked, rank_raised, summary>>
parserVars == <<response, parsed>>
runVars ==
    <<pc, proposals, idx, results, analysed, attempt, call_log, sleeps, api_ret, failed,
      cancel_at, sliders>>
vars == <<op, analysis, weights, ret, analyses, ranked, rank_raised, summary, response,
          parsed,
          pc, proposals, idx, results, analysed, attempt, call_log, sleeps, api_ret,
          failed, cancel_at, sliders>>

----------------------------------------------------------------------------
(* Bounds of the model *)

\* weights are counted in units of 1/WeightScale of a percentage point
WeightScale == 250
\* a weight is moved off its whole-point value by at most MaxDev units
MaxDev == 3
\* rank_suppliers is called with at most MaxSuppliers scorecards
MaxSuppliers == 3

----------------------------------------------------------------------------
(* Values *)

Abs(x) == IF x < 0 THEN -x ELSE x

Num(n) == [kind |-> "num", v |-> n]
Str == [kind |-> "str", v |-> 0]
Null == [kind |-> "null", v |-> 0]
List == [kind |-> "list", v |-> 0]
\* the key 'score' is not in the criterion's dict
NoScore == [kind |-> "absent", v |-> 0]

CriteriaOrder ==
    << "technical_compliance", "price_competitiveness", "company_experience",
       "timeline_feasibility", "risk_assessment" >>

Criteria == {CriteriaOrder[k] : k \in 1..Len(CriteriaOrder)}

\* whole percentage points, as the source writes them, in weight units
Points(p) == Num(p * WeightScale)

default_weights ==
    [c \in Criteria |->
        CASE c = "technical_compliance" -> Points(30)
          [] c = "price_competitiveness" -> Points(25)
          [] c = "company_experience" -> Points(20)
          [] c = "timeline_feasibility" -> Points(15)
          [] c = "risk_assessment" -> Points(10)]

\* a dict argument, and the argument None
Dict(m) == [given |-> TRUE, map |-> m]
None == [given |-> FALSE, map |-> [c \in {} |-> Num(0)]]

RECURSIVE SumOver(_, _)
SumOver(f, S) ==
    IF S = {} THEN 0
    ELSE LET c == CHOOSE x \in S : TRUE
         IN  f[c] + SumOver(f, S \ {c})

----------------------------------------------------------------------------
(* ProposalScorer.validate_weights *)

Verdict(ok, why) == [valid |-> ok, reason |-> why]

validate_weights_no_negative_check(w) ==
    IF ~w.given \/ \E c \in DOMAIN w.map : w.map[c].kind # "num"
    THEN Verdict(FALSE, "Error validating weights")
    ELSE LET total_weight == SumOver([c \in DOMAIN w.map |-> w.map[c].v], DOMAIN w.map)
         IN  IF Abs(total_weight - 100 * WeightScale) * 100 > WeightScale
             THEN Verdict(FALSE, "Weights must sum to 100%")
             ELSE Verdict(TRUE, "")

\* sum(weights.values()) raises on a weight that is no number (and
\* weights.values() on None); the handler of line 59 turns that into a verdict.
\* abs(total_weight - 100.0) > 0.01, both sides scaled by 100 * WeightScale.
validate_weights(w) ==
    IF ~w.given \/ \E c \in DOMAIN w.map : w.map[c].kind # "num"
    THEN Verdict(FALSE, "Error validating weights")
    ELSE LET total_weight == SumOver([c \in DOMAIN w.map |-> w.map[c].v], DOMAIN w.map)
         IN  IF Abs(total_weight - 100 * WeightScale) * 100 > WeightScale
             THEN Verdict(FALSE, "Weights must sum to 100%")
             ELSE IF \E c \in DOMAIN w.map : w.map[c].v < 0
             THEN Verdict(FALSE, "Weight cannot be negative")
             ELSE Verdict(TRUE, "")

----------------------------------------------------------------------------
(* Scorecards *)

\* an entry of criteria_scores: a dict (with or without 'score'), or a value
\* that is no dict (a bare number, a list, null)
EntryDict(score) == [kind |-> "dict", score |-> score]
NonDict == [kind |-> "nondict", score |-> NoScore]

\* criteria_scores: a dict of entries, or a value that is no dict
ScoresDict(items) == [isdict |-> TRUE, items |-> items]
ScoresNonDict == [isdict |-> FALSE, items |-> [c \in {} |-> NonDict]]

\* a text is a tuple of pieces, so that a message built around another
\* message (f"Analysis failed: {str(e)}") still shows the message it holds
Text(str) == <<str>>

\* the key is not in the scorecard
Absent == Text("(absent)")

\* the keys of a scorecard the analyzer and the scorer read or write
Scorecard(name, cs) ==
    [supplier_name |-> Text(name), criteria_scores |-> cs, final_score |-> Absent,
     overall_summary |-> Absent, red_flags |-> Absent, recommendations |-> Absent,
     status |-> Absent, error |-> Absent, analysis_timestamp |-> Absent,
     model_used |-> Absent]

\* criteria_scores.get(criterion, {})
EntryOf(cs, c) == IF c \in DOMAIN cs.items THEN cs.items[c] ELSE EntryDict(NoScore)

\* criterion_data.get('score', 0)
ScoreOf(e) == IF e.score.kind = "absent" THEN Num(0) ELSE e.score

----------------------------------------------------------------------------
(* ProposalScorer.calculate_weighted_score *)

\* round(x, 2) of x = n / d, in hundredths: the nearest hundredth; when x is
\* exactly half way the binary value of x decides, and either neighbour can
\* come out.
Round2(n, d) ==
    LET q == (100 * n) \div d
    IN  {r \in {q, q + 1} : 2 * Abs(100 * n - r * d) <= d}

\* round(max(0.0, min(100.0, weighted_sum / (total_weight / 100.0))), 2)
ClampRound_unclamped(weighted_sum, total_weight) ==
    Round2(weighted_sum, total_weight)

ClampRound(weighted_sum, total_weight) ==
    IF weighted_sum <= 0 THEN {0}
    ELSE IF weighted_sum >= 100 * total_weight THEN {10000}
    ELSE Round2(weighted_sum, total_weight)

\* how the body of the try block ends: a return, or an exception
Outcome(how, v) == [exc |-> how, value |-> v]

\* weights or self.default_weights
EffectiveWeights_none_only(w) ==
    IF ~w.given THEN default_weights ELSE w.map

EffectiveWeights(w) ==
    IF ~w.given \/ DOMAIN w.map = {} THEN default_weights ELSE w.map

\* the criteria the loop of lines 87-92 adds up: those whose entry is a dict
Counted_every_criterion(cs, wts) == DOMAIN wts

Counted(cs, wts) == {c \in DOMAIN wts : EntryOf(cs, c).kind = "dict"}

score_body_unvalidated(a, w) ==
    LET wts == EffectiveWeights(w)
        cs == a.criteria_scores
    IN  IF ~cs.isdict THEN {Outcome("AttributeError", 0)}
        ELSE IF \/ \E c \in Counted(cs, wts) : ScoreOf(EntryOf(cs, c)).kind # "num"
                \/ \E c \in Counted(cs, wts) : wts[c].kind # "num"
        THEN {Outcome("TypeError", 0)}
        ELSE LET weighted_sum ==
                     SumOver([c \in Counted(cs, wts) |->
                                 ScoreOf(EntryOf(cs, c)).v * wts[c].v],
                             Counted(cs, wts))
                 total_weight ==
                     SumOver([c \in Counted(cs, wts) |-> wts[c].v], Counted(cs, wts))
             IN  IF total_weight = 0 THEN {Outcome("return", 0)}
                 ELSE {Outcome("return", r) : r \in ClampRound(weighted_sum, total_weight)}

score_body_divided_by_100(a, w) ==
    LET wts == EffectiveWeights(w)
        cs == a.criteria_scores
    IN  IF ~validate_weights(Dict(wts)).valid THEN {Outcome("return", 0)}
        ELSE IF ~cs.isdict THEN {Outcome("AttributeError", 0)}
        ELSE IF \E c \in Counted(cs, wts) : ScoreOf(EntryOf(cs, c)).kind # "num"
        THEN {Outcome("TypeError", 0)}
        ELSE LET weighted_sum ==
                     SumOver([c \in Counted(cs, wts) |->
                                 ScoreOf(EntryOf(cs, c)).v * wts[c].v],
                             Counted(cs, wts))
             IN  {Outcome("return", r) : r \in ClampRound(weighted_sum, 100 * WeightScale)}

score_body(a, w) ==
    LET wts == EffectiveWeights(w)
        cs == a.criteria_scores
    IN  IF ~validate_weights(Dict(wts)).valid THEN {Outcome("return", 0)}
        ELSE IF ~cs.isdict THEN {Outcome("AttributeError", 0)}
        ELSE IF \E c \in Counted(cs, wts) : ScoreOf(EntryOf(cs, c)).kind # "num"
        THEN {Outcome("TypeError", 0)}
        ELSE LET weighted_sum ==
                     SumOver([c \in Counted(cs, wts) |->
                                 ScoreOf(EntryOf(cs, c)).v * wts[c].v],
                             Counted(cs, wts))
                 total_weight ==
                     SumOver([c \in Counted(cs, wts) |-> wts[c].v], Counted(cs, wts))
             IN  IF total_weight = 0 THEN {Outcome("return", 0)}
                 ELSE {Outcome("return", r) : r \in ClampRound(weighted_sum, total_weight)}

Returned(v) == [raised |-> FALSE, value |-> v]

\* the set of values the call can return: the handler of lines 106-108 turns
\* every exception of the body into the return value 0.0
calculate_weighted_score(a, w) ==
    {Returned(IF o.exc = "return" THEN o.value ELSE 0) : o \in score_body(a, w)}

----------------------------------------------------------------------------
(* ProposalScorer.rank_suppliers *)

\* supplier_data = analysis.copy(); supplier_data['weighted_score'] = ...;
\* supplier_data['rank'] = ...
Augment(a, score, rk) == ("weighted_score" :> score @@ "rank" :> rk) @@ a

\* list.sort(key = weighted_score, reverse = True): descending and stable, an
\* element goes behind every element whose score is at least its own
RECURSIVE InsertDesc_ties_reversed(_, _)
InsertDesc_ties_reversed(s, x) ==
    IF s = << >> THEN <<x>>
    ELSE IF Head(s).weighted_score > x.weighted_score
         THEN <<Head(s)>> \o InsertDesc_ties_reversed(Tail(s), x)
         ELSE <<x>> \o s

RECURSIVE InsertDesc(_, _)
InsertDesc(s, x) ==
    IF s = << >> THEN <<x>>
    ELSE IF Head(s).weighted_score >= x.weighted_score
         THEN <<Head(s)>> \o InsertDesc(Tail(s), x)
         ELSE <<x>> \o s

RECURSIVE SortDesc(_)
SortDesc(s) ==
    IF s = << >> THEN << >>
    ELSE InsertDesc(SortDesc(SubSeq(s, 1, Len(s) - 1)), s[Len(s)])

\* for i, supplier in enumerate(ranked_suppliers): supplier['rank'] = i + 1
AssignRanks(s) == [i \in 1..Len(s) |-> [s[i] EXCEPT !.rank = i]]

\* one value of calculate_weighted_score per scorecard
ScoreChoices(as, w) ==
    LET vals(i) == {r.value : r \in calculate_weighted_score(as[i], w)}
    IN  {f \in [1..Len(as) -> UNION {vals(i) : i \in 1..Len(as)}] :
            \A i \in 1..Len(as) : f[i] \in vals(i)}

\* the position the stable descending sort gives the i-th scorecard when the
\* scorecards score f[1], ..., f[n]: the rank line 142 writes for it
RankOf(f, i) ==
    1 + Cardinality({j \in DOMAIN f : f[j] > f[i] \/ (f[j] = f[i] /\ j < i)})

\* supplier_data = analysis.copy(): what the caller's dict holds once
\* supplier_data has become `written`
copy_aliased(a, written) == written

copy(a, written) == a

\* the body of the try block: ranked_suppliers[0] in the log line of line 144
\* raises IndexError on an empty list; inputs is the caller's list afterwards
rank_body(as, w) ==
    {[exc |-> IF Len(as) = 0 THEN "IndexError" ELSE "return",
      value |-> IF Len(as) = 0 THEN << >>
                ELSE AssignRanks(SortDesc([i \in 1..Len(as) |-> Augment(as[i], f[i], 0)])),
      inputs |-> [i \in 1..Len(as) |-> copy(as[i], Augment(as[i], f[i], RankOf(f, i)))]]
        : f \in ScoreChoices(as, w)}

RankReturn(v) == [raised |-> FALSE, value |-> v]
RankRaise(exc) == [raised |-> TRUE, value |-> << >>, exc |-> exc]

\* how the call can end: the handler of lines 148-150 returns [] for every
\* exception of the body
rank_call_propagating(as, w) ==
    {[inputs |-> o.inputs] @@
        (IF o.exc = "return" THEN RankReturn(o.value) ELSE RankRaise(o.exc))
        : o \in rank_body(as, w)}

rank_call(as, w) ==
    {[inputs |-> o.inputs] @@
        (IF o.exc = "return" THEN RankReturn(o.value) ELSE RankReturn(<< >>))
        : o \in rank_body(as, w)}

\* the lists the call can return
rank_suppliers(as, w) == {r.value : r \in rank_call(as, w)}

----------------------------------------------------------------------------
(* ProposalScorer.generate_summary_statistics *)

Max(S) == CHOOSE x \in S : \A y \in S : y <= x
Min(S) == CHOOSE x \in S : \A y \in S : x <= y

\* s.get('weighted_score', 0), s.get('supplier_name', 'Unknown')
GetWeightedScore(r) == IF "weighted_score" \in DOMAIN r THEN r.weighted_score ELSE 0
GetSupplierName(r) == IF "supplier_name" \in DOMAIN r THEN r.supplier_name ELSE Text("Unknown")

\* the dict returned for an empty list
EmptyStats ==
    [total_suppliers |-> 0, average_score |-> 0, highest_score |-> 0, lowest_score |-> 0,
     score_range |-> 0]

\* len([s for s in scores if lo <= s < hi]); scores are hundredths
CountIn(scores, lo, hi) ==
    Cardinality({i \in DOMAIN scores : lo <= scores[i] /\ scores[i] < hi})

score_distribution_inclusive(scores) ==
    [excellent |-> Cardinality({i \in DOMAIN scores : scores[i] >= 8000}),
     good |-> Cardinality({i \in DOMAIN scores : 6000 <= scores[i] /\ scores[i] <= 8000}),
     fair |-> Cardinality({i \in DOMAIN scores : 4000 <= scores[i] /\ scores[i] <= 6000}),
     poor |-> Cardinality({i \in DOMAIN scores : scores[i] <= 4000})]

score_distribution(scores) ==
    [excellent |-> Cardinality({i \in DOMAIN scores : scores[i] >= 8000}),
     good |-> CountIn(scores, 6000, 8000),
     fair |-> CountIn(scores, 4000, 6000),
     poor |-> Cardinality({i \in DOMAIN scores : scores[i] < 4000})]

\* round(sum(scores) / len(scores), 2)
average_score_truncating(scores) ==
    {SumOver(scores, DOMAIN scores) \div Len(scores)}

average_score(scores) == Round2(SumOver(scores, DOMAIN scores), 100 * Len(scores))

\* ranked_suppliers[0]
TopEntry_last(rs) == rs[Len(rs)]

TopEntry(rs) == rs[1]

\* the dicts the call can return for a list of dicts with numeric
\* weighted_score, on which the body raises nothing
generate_summary_statistics(rs) ==
    IF rs = << >> THEN {EmptyStats}
    ELSE LET scores == [i \in 1..Len(rs) |-> GetWeightedScore(rs[i])]
             values == {scores[i] : i \in 1..Len(rs)}
         IN  {[total_suppliers |-> Len(rs),
               average_score |-> avg,
               highest_score |-> Max(values),
               lowest_score |-> Min(values),
               score_range |-> Max(values) - Min(values),
               top_supplier |-> GetSupplierName(TopEntry(rs)),
               top_score |-> GetWeightedScore(TopEntry(rs)),
               evaluation_timestamp |-> Text("2025-01-01 00:00:00"),
               score_distribution |-> score_distribution(scores)]
                 : avg \in average_score(scores)}

NoSummary == [called |-> FALSE, stats |-> << >>]

RankIdle == ranked = << >> /\ rank_raised = FALSE /\ summary = NoSummary

\* the scores 85/75/90/80/85 of test_calculate_weighted_score_valid
ExampleScores ==
    [c \in Criteria |->
        CASE c = "technical_compliance" -> 85
          [] c = "price_competitiveness" -> 75
          [] c = "company_experience" -> 90
          [] c = "timeline_feasibility" -> 80
          [] c = "risk_assessment" -> 85]

NumericItems(scores) == [c \in DOMAIN scores |-> EntryDict(Num(scores[c]))]

----------------------------------------------------------------------------
(* Texts.  A response text is a sequence of characters; a JSON value, or a  *)
(* piece of text that is none, stands in it as one token.                   *)

\* the backquote character
Backquote == "backquote"

Fence == <<Backquote, Backquote, Backquote>>
FenceJson == Fence \o <<"j", "s", "o", "n">>

Whitespace == {"space", "newline"}

RECURSIVE lstrip(_)
lstrip(s) == IF s # << >> /\ Head(s) \in Whitespace THEN lstrip(Tail(s)) ELSE s

RECURSIVE rstrip(_)
rstrip(s) ==
    IF s # << >> /\ s[Len(s)] \in Whitespace THEN rstrip(SubSeq(s, 1, Len(s) - 1)) ELSE s

\* str.strip()
strip(s) == rstrip(lstrip(s))

\* str.startswith(p), str.endswith(p)
startswith(s, p) == Len(s) >= Len(p) /\ SubSeq(s, 1, Len(p)) = p
endswith(s, p) == Len(s) >= Len(p) /\ SubSeq(s, Len(s) - Len(p) + 1, Len(s)) = p

\* the content of a response: a string, or None
Content(text) == [isnone |-> FALSE, text |-> text]
NoContent == [isnone |-> TRUE, text |-> << >>]

----------------------------------------------------------------------------
(* JSON values and json.loads *)

\* the payload of test_analyze_proposal_success
PayloadA ==
    [supplier_name |-> Text("Test Supplier"),
     criteria_scores |-> ScoresDict(NumericItems(ExampleScores)),
     final_score |-> Text("83.0"),
     overall_summary |-> Text("Good proposal overall"),
     red_flags |-> Text("[]"),
     recommendations |-> Text("Recommended"),
     status |-> Absent, error |-> Absent, analysis_timestamp |-> Absent,
     model_used |-> Absent]

\* an object that names no supplier and scores two criteria only
PayloadB ==
    [supplier_name |-> Absent,
     criteria_scores |->
        ScoresDict([c \in {CriteriaOrder[1], CriteriaOrder[2]} |-> EntryDict(Num(70))]),
     final_score |-> Absent,
     overall_summary |-> Text("Partial evaluation"),
     red_flags |-> Text("[]"),
     recommendations |-> Absent,
     status |-> Absent, error |-> Absent, analysis_timestamp |-> Absent,
     model_used |-> Absent]

JsonObject(obj) == [kind |-> "object", obj |-> obj]
JsonOther(kind) == [kind |-> kind, obj |-> Scorecard("", ScoresDict([c \in {} |-> NonDict]))]

\* the tokens that are a complete JSON value, and the value each decodes to
Decoding ==
    [tok \in {"{object A}", "{object B}", "[array]", "null", "7", "\"text\""} |->
        CASE tok = "{object A}" -> JsonObject(PayloadA)
          [] tok = "{object B}" -> JsonObject(PayloadB)
          [] tok = "[array]" -> JsonOther("array")
          [] tok = "null" -> JsonOther("null")
          [] tok = "7" -> JsonOther("number")
          [] tok = "\"text\"" -> JsonOther("string")]

\* the tokens that are no JSON value, and what the decoder says of each:
\* an object cut off before its closing braces, and plain prose
DecodeErrors ==
    [tok \in {"{truncated object", "prose"} |->
        CASE tok = "{truncated object" -> Text("Expecting , delimiter")
          [] tok = "prose" -> Text("Expecting value")]

Decoded(v) == [ok |-> TRUE, value |-> v, err |-> Text("")]
DecodeError(msg) == [ok |-> FALSE, value |-> JsonOther("none"), err |-> msg]

\* json.loads(s): whitespace, one JSON value, whitespace
json_loads(s) ==
    LET t == strip(s)
    IN  IF t = << >> THEN DecodeError(Text("Expecting value"))
        ELSE IF Head(t) \in DOMAIN DecodeErrors THEN DecodeError(DecodeErrors[Head(t)])
        ELSE IF Head(t) \notin DOMAIN Decoding THEN DecodeError(Text("Expecting value"))
        ELSE IF Len(t) > 1 THEN DecodeError(Text("Extra data"))
        ELSE Decoded(Decoding[Head(t)])

----------------------------------------------------------------------------
(* ProposalAnalyzer._parse_json_response *)

\* time.strftime(...), self.model
Now == Text("2025-01-01 00:00:00")
Model == Text("gpt-4-turbo-preview")

\* the fallback structure of lines 195-209
FallbackCard(err) ==
    [supplier_name |-> Text("Unknown"),
     criteria_scores |-> ScoresDict([c \in Criteria |-> EntryDict(Num(50))]),
     final_score |-> Text("50.0"),
     overall_summary |-> Text("Analysis failed due to parsing error"),
     red_flags |-> Text("Unable to parse AI response"),
     recommendations |-> Text("Manual review required"),
     status |-> Absent, error |-> err, analysis_timestamp |-> Absent,
     model_used |-> Absent]

\* lines 179-185: strip, then drop a leading ```json and a trailing ```
CleanResponse(text) ==
    LET stripped == strip(text)
        opened == IF startswith(stripped, FenceJson)
                  THEN SubSeq(stripped, 8, Len(stripped)) ELSE stripped
    IN  IF endswith(opened, Fence) THEN SubSeq(opened, 1, Len(opened) - 3) ELSE opened

ParseReturn(v) == [raised |-> FALSE, exc |-> Text(""), value |-> v]
ParseRaise(msg) == [raised |-> TRUE, exc |-> msg, value |-> JsonOther("none")]

parse_json_response_reraising(content) ==
    IF content.isnone THEN ParseRaise(Text("NoneType object has no attribute strip"))
    ELSE LET d == json_loads(CleanResponse(content.text))
         IN  IF d.ok THEN ParseReturn(d.value) ELSE ParseRaise(d.err)

parse_json_response_objects_only(content) ==
    IF content.isnone THEN ParseRaise(Text("NoneType object has no attribute strip"))
    ELSE LET d == json_loads(CleanResponse(content.text))
         IN  IF d.ok /\ d.value.kind = "object" THEN ParseReturn(d.value)
             ELSE ParseReturn(JsonObject(FallbackCard(IF d.ok THEN Text("Expecting object") ELSE d.err)))

\* only json.JSONDecodeError is handled: None.strip() raises AttributeError
\* to the caller
parse_json_response(content) ==
    IF content.isnone THEN ParseRaise(Text("NoneType object has no attribute strip"))
    ELSE LET d == json_loads(CleanResponse(content.text))
         IN  IF d.ok THEN ParseReturn(d.value)
             ELSE ParseReturn(JsonObject(FallbackCard(d.err)))

----------------------------------------------------------------------------
(* ProposalAnalyzer._make_api_call *)

max_retries == 3
retry_delay == 2

ApiReturn(content) ==
    [ended |-> TRUE, raised |-> FALSE, content |-> content, error |-> << >>]
ApiRaise(msg) ==
    [ended |-> TRUE, raised |-> TRUE, content |-> NoContent, error |-> msg]
NoApiReturn ==
    [ended |-> FALSE, raised |-> FALSE, content |-> NoContent, error |-> << >>]

\* if attempt < max_retries - 1: sleep and continue, else raise
ShouldRetry_one_more(a) == a < max_retries

ShouldRetry(a) == a < max_retries - 1

\* time.sleep(self.retry_delay * (2 ** attempt))
BackoffDelay_constant(a) == retry_delay

BackoffDelay(a) == retry_delay * (2 ^ a)

\* for attempt in range(max_retries)
InRange(a) == a < max_retries

\* Exception(f"API error after {max_retries} attempts: {e}")
ApiErrorText(cause) == <<"API error after ", ToString(max_retries), " attempts: ", cause>>

\* Exception("All retry attempts failed"), behind the loop
AllFailedText == Text("All retry attempts failed")

\* one request: whether it came back, and with what
Request(a, ok, content, cause) ==
    [attempt |-> a, ok |-> ok, content |-> content, cause |-> cause]

----------------------------------------------------------------------------
(* ProposalAnalyzer.analyze_proposal *)

\* the record of lines 123-140
ErrorCard(name, msg) ==
    [supplier_name |-> Text(name),
     criteria_scores |-> ScoresDict([c \in Criteria |-> EntryDict(Num(0))]),
     final_score |-> Text("0.0"),
     overall_summary |-> <<"Analysis failed: ">> \o msg,
     red_flags |-> Text("Analysis system error"),
     recommendations |-> Text("Manual review required due to system error"),
     status |-> Text("error"), error |-> msg, analysis_timestamp |-> Now,
     model_used |-> Model]

AnalysisReturn(card) == [exc |-> FALSE, msg |-> << >>, card |-> card]
AnalysisRaise(msg) == [exc |-> TRUE, msg |-> msg, card |-> ErrorCard("", msg)]

\* result['supplier_name'] = supplier_name on a value that is no dict: the
\* TypeError's message
ItemAssignmentError(kind) ==
    CASE kind = "array" -> Text("list indices must be integers or slices, not str")
      [] kind = "null" -> <<"'NoneType'", " object does not support item assignment">>
      [] kind = "number" -> <<"'int'", " object does not support item assignment">>
      [] kind = "string" -> <<"'str'", " object does not support item assignment">>
      [] OTHER -> Text("object does not support item assignment")

\* the try block, given how _make_api_call ended: the call's exception, an
\* exception of the parser, or the item assignment on a value that is no dict
analysis_body(name, api) ==
    IF api.raised THEN AnalysisRaise(api.error)
    ELSE LET p == parse_json_response(api.content)
         IN  IF p.raised THEN AnalysisRaise(p.exc)
             ELSE IF p.value.kind # "object"
             THEN AnalysisRaise(ItemAssignmentError(p.value.kind))
             ELSE AnalysisReturn([p.value.obj EXCEPT
                                     !.supplier_name = Text(name),
                                     !.analysis_timestamp = Now,
                                     !.model_used = Model,
                                     !.status = Text("success")])

analyze_proposal_unguarded(name, api) ==
    LET o == analysis_body(name, api)
    IN  [raised |-> o.exc, card |-> o.card]

\* the handler of lines 121-140 turns every exception into the error record
analyze_proposal(name, api) ==
    LET o == analysis_body(name, api)
    IN  IF o.exc THEN [raised |-> FALSE, card |-> ErrorCard(name, o.msg)]
        ELSE [raised |-> FALSE, card |-> o.card]

----------------------------------------------------------------------------
(* The parts of the state a harness does not use *)

NoReturn == [valid |-> FALSE, reason |-> "", raised |-> FALSE, value |-> 0]

NoParse == [called |-> FALSE, out |-> ParseReturn(JsonOther("none"))]

ParserIdle == response = NoContent /\ parsed = NoParse

ScorerIdle == op = "idle" /\ analysis = Scorecard("", ScoresDict([c \in {} |-> NonDict])) /\ ret = NoReturn

RunIdle ==
    /\ pc = "off"
    /\ proposals = << >>
    /\ idx = 0
    /\ results = << >>
    /\ analysed = << >>
    /\ attempt = 0
    /\ call_log = << >>
    /\ sleeps = << >>
    /\ api_ret = NoApiReturn
    /\ failed = {}
    /\ cancel_at = 0
    /\ sliders = default_weights

----------------------------------------------------------------------------
(* Inputs of the scorer harness *)

ScoreValues == {-40, 60, 150}

\* every criterion carries a number
NumericCards ==
    {ScoresDict(NumericItems(sc)) : sc \in [Criteria -> ScoreValues] \cup {ExampleScores}}

\* what an entry can hold instead of a number
OddEntries == {EntryDict(Str), EntryDict(Null), EntryDict(List), EntryDict(NoScore), NonDict}

BaseItems == {NumericItems(ExampleScores), NumericItems([c \in Criteria |-> 60])}

\* one criterion missing or odd; only the first two criteria present
\* (test_calculate_weighted_score_missing_criteria); criteria_scores no dict
MalformedCards ==
    {ScoresDict([c \in Criteria \ {x} |-> b[c]]) : b \in BaseItems, x \in Criteria}
    \cup {ScoresDict([b EXCEPT ![x] = e]) : b \in BaseItems, x \in Criteria, e \in OddEntries}
    \cup {ScoresDict([c \in {CriteriaOrder[1], CriteriaOrder[2]} |-> b[c]]) : b \in BaseItems}
    \cup {ScoresDict([c \in Criteria |-> NonDict]), ScoresDict([c \in {} |-> NonDict]),
          ScoresNonDict}

\* every criterion carries the same score
UniformCards == {ScoresDict(NumericItems([c \in Criteria |-> sc])) : sc \in {0, 50, 100}}

\* the scorecards analyze_proposal makes of a parse failure and of a failed
\* request
AnalyzerCards ==
    {[FallbackCard(Text("Expecting value")) EXCEPT
         !.supplier_name = Text("Test Supplier"), !.analysis_timestamp = Now,
         !.model_used = Model, !.status = Text("success")],
     ErrorCard("Test Supplier", AllFailedText)}

HarnessCards ==
    {Scorecard("Test Supplier", cs) : cs \in NumericCards \cup MalformedCards \cup UniformCards}
    \cup AnalyzerCards

\* weight vectors in whole points: the defaults, an even split, all on one
\* criterion, a negative weight offset by an oversized one, a total of 95
\* (test_weights_not_summing_to_100)
BasePoints ==
    { <<30, 25, 20, 15, 10>>, <<20, 20, 20, 20, 20>>, <<100, 0, 0, 0, 0>>,
      <<-30, 130, 0, 0, 0>>, <<20, 30, 20, 15, 10>> }

WeightsOf(pts) == [c \in Criteria |-> Points(pts[CHOOSE k \in 1..5 : CriteriaOrder[k] = c])]

\* a base vector with one of two criteria moved off its whole-point value
ShiftedWeights ==
    {[WeightsOf(pts) EXCEPT ![x] = Num(@.v + d)] :
        pts \in BasePoints, x \in {CriteriaOrder[1], CriteriaOrder[5]}, d \in -MaxDev..MaxDev}

\* weight maps that leave criteria out: {technical_compliance: 100},
\* {technical_compliance: 50, price_competitiveness: 60}, the defaults
\* without risk_assessment
PartialWeights ==
    { [c \in {CriteriaOrder[1]} |-> Points(100)],
      [c \in {CriteriaOrder[1], CriteriaOrder[2]} |->
          IF c = CriteriaOrder[1] THEN Points(50) ELSE Points(60)],
      [c \in Criteria \ {CriteriaOrder[5]} |-> default_weights[c]] }

\* a weight that is a string or null
NonNumericWeights ==
    {[default_weights EXCEPT ![x] = e] : x \in {CriteriaOrder[1], CriteriaOrder[2]}, e \in {Str, Null}}

HarnessWeights ==
    {Dict(m) : m \in ShiftedWeights \cup PartialWeights \cup NonNumericWeights}
    \cup {Dict([c \in {} |-> Num(0)]), None}

----------------------------------------------------------------------------
(* The scorer harness: one call of validate_weights or of                   *)
(* calculate_weighted_score on arguments drawn from the sets above          *)

NoCard == Scorecard("", ScoresDict([c \in {} |-> NonDict]))

InitScore ==
    /\ op = "idle"
    /\ analysis \in HarnessCards
    /\ weights \in HarnessWeights
    /\ ret = NoReturn
    /\ analyses = << >>
    /\ RankIdle
    /\ ParserIdle
    /\ RunIdle

ValidateWeights ==
    /\ op = "idle"
    /\ op' = "validate_weights"
    /\ LET v == validate_weights(weights)
       IN  ret' = [NoReturn EXCEPT !.valid = v.valid, !.reason = v.reason]
    /\ UNCHANGED <<analysis, weights, analyses, rankVars, parserVars, runVars>>

CalculateWeightedScore ==
    /\ op = "idle"
    /\ op' = "calculate_weighted_score"
    /\ \E r \in calculate_weighted_score(analysis, weights) :
          ret' = [NoReturn EXCEPT !.raised = r.raised, !.value = r.value]
    /\ UNCHANGED <<analysis, weights, analyses, rankVars, parserVars, runVars>>

NextScore == ValidateWeights \/ CalculateWeightedScore

SpecScore == InitScore /\ [][NextScore]_vars

----------------------------------------------------------------------------
(* Properties of the scorer *)

\* all five criteria are present and carry a number
AllFiveNumeric(a) ==
    /\ a.criteria_scores.isdict
    /\ DOMAIN a.criteria_scores.items = Criteria
    /\ \A c \in Criteria :
          /\ a.criteria_scores.items[c].kind = "dict"
          /\ a.criteria_scores.items[c].score.kind = "num"

NumericMap(w) == w.given /\ \A c \in DOMAIN w.map : w.map[c].kind = "num"

TotalOf(w) == SumOver([c \in DOMAIN w.map |-> w.map[c].v], DOMAIN w.map)

\* sum of score * weight over the criteria of the weight map
Products(a, w) ==
    SumOver([c \in DOMAIN w.map |-> a.criteria_scores.items[c].score.v * w.map[c].v],
            DOMAIN w.map)

\* r (hundredths) is x = n / d clamped to [0, 100] and rounded to 2 decimals
IsClampedRounded(r, n, d) ==
    IF n <= 0 THEN r = 0
    ELSE IF n >= 100 * d THEN r = 10000
    ELSE 2 * Abs(100 * n - r * d) <= d

ScoredValidNumeric ==
    /\ op = "calculate_weighted_score"
    /\ AllFiveNumeric(analysis)
    /\ weights.given /\ DOMAIN weights.map # {}
    /\ validate_weights(weights).valid

\* C1 as stated: with five numeric scores and weights that pass validation,
\* calculate_weighted_score returns, without raising,
\* sum(score_i * weight_i) / 100 clamped to [0, 100], rounded to 2 decimals.
C1_DividedBy100 ==
    ScoredValidNumeric =>
        /\ ~ret.raised
        /\ IsClampedRounded(ret.value, Products(analysis, weights), 100 * WeightScale)

\* C1 amended: with five numeric scores and weights that pass validation,
\* calculate_weighted_score returns, without raising,
\* sum(score_i * weight_i) / sum(weight_i) over the criteria of the weight map,
\* clamped to [0, 100] and rounded to 2 decimals.
C1_DividedByTotalWeight ==
    ScoredValidNumeric =>
        /\ ~ret.raised
        /\ IsClampedRounded(ret.value, Products(analysis, weights), TotalOf(weights))

\* a score above 100 was clamped, with weights summing to 100 only within the tolerance
C1_Witness ==
    /\ ScoredValidNumeric
    /\ TotalOf(weights) # 100 * WeightScale
    /\ \E c \in Criteria : analysis.criteria_scores.items[c].score.v > 100
    /\ ret.value > 0 /\ ret.value < 10000

\* C3: validate_weights accepts, with an empty reason, every map of
\* non-negative weights whose total is within 0.01 of 100, and rejects, with a
\* non-empty reason, every map whose total is further off or that holds a
\* negative weight.
C3_ValidateWeights ==
    (op = "validate_weights" /\ NumericMap(weights)) =>
        LET within == Abs(TotalOf(weights) - 100 * WeightScale) * 100 <= WeightScale
            nonneg == \A c \in DOMAIN weights.map : weights.map[c].v >= 0
        IN  /\ (within /\ nonneg) => (ret.valid /\ ret.reason = "")
            /\ ~(within /\ nonneg) => (~ret.valid /\ ret.reason # "")

\* five non-negative weights whose total is off 100, inside the tolerance, accepted
C3_Witness ==
    /\ op = "validate_weights" /\ NumericMap(weights)
    /\ DOMAIN weights.map = Criteria
    /\ TotalOf(weights) # 100 * WeightScale
    /\ ret.valid

\* C8 as stated: calculate_weighted_score raises when a criterion of the
\* weight map is absent from the scorecard's criteria_scores.
C8_MissingCriterionRaises ==
    ( /\ op = "calculate_weighted_score"
      /\ validate_weights(Dict(EffectiveWeights(weights))).valid
      /\ analysis.criteria_scores.isdict
      /\ \E c \in DOMAIN EffectiveWeights(weights) : c \notin DOMAIN analysis.criteria_scores.items )
    => ret.raised

\* C9 as stated: calculate_weighted_score raises when the weight map fails
\* validation.
C9_InvalidWeightsRaise ==
    ( /\ op = "calculate_weighted_score"
      /\ weights.given /\ DOMAIN weights.map # {}
      /\ ~validate_weights(weights).valid )
    => ret.raised

\* C10 as stated: calculate_weighted_score raises when the score of a weighted
\* criterion is a string, null or a list.
C10_NonNumericScoreRaises ==
    ( /\ op = "calculate_weighted_score"
      /\ validate_weights(Dict(EffectiveWeights(weights))).valid
      /\ analysis.criteria_scores.isdict
      /\ \E c \in DOMAIN EffectiveWeights(weights) \cap DOMAIN analysis.criteria_scores.items :
            /\ analysis.criteria_scores.items[c].kind = "dict"
            /\ analysis.criteria_scores.items[c].score.kind \in {"str", "null", "list"} )
    => ret.raised

----------------------------------------------------------------------------
(* The ranking harness: one call of rank_suppliers *)

RankScores ==
    [name \in {"Supplier A", "Supplier B", "Supplier C", "Supplier D", "Supplier E"} |->
        CASE name = "Supplier A" -> <<70, 80, 75, 85, 90>>
          [] name = "Supplier B" -> <<90, 75, 85, 80, 95>>
          [] name = "Supplier C" -> <<60, 70, 65, 75, 80>>
          [] name = "Supplier D" -> <<70, 80, 75, 85, 90>>
          [] name = "Supplier E" -> <<0, 0, 0, 0, 0>>]

\* the suppliers of test_rank_suppliers_valid, a supplier D that ties with A,
\* and a supplier E with all scores 0
RankCards ==
    {Scorecard(name,
               ScoresDict([c \in Criteria |->
                   EntryDict(Num(RankScores[name][CHOOSE k \in 1..5 : CriteriaOrder[k] = c]))]))
        : name \in DOMAIN RankScores}

\* scorecards calculate_weighted_score fails on: criteria_scores no dict
\* (AttributeError), a score that is a string (TypeError); and one that lacks
\* three criteria
MalformedRankCards ==
    {Scorecard("Supplier F", ScoresNonDict),
     Scorecard("Supplier G",
               ScoresDict([NumericItems([c \in Criteria |-> 60]) EXCEPT
                              ![CriteriaOrder[1]] = EntryDict(Str)])),
     Scorecard("Supplier H",
               ScoresDict([c \in {CriteriaOrder[1], CriteriaOrder[2]} |->
                              NumericItems(ExampleScores)[c]]))}

RankWeights ==
    {Dict(default_weights), Dict(WeightsOf(<<20, 20, 20, 20, 20>>)),
     Dict(WeightsOf(<<100, 0, 0, 0, 0>>)), Dict(WeightsOf(<<20, 30, 20, 15, 10>>)), None,
     Dict([c \in {} |-> Num(0)])}

\* weights that do not validate: a total of 95, a string
InvalidRankWeights ==
    {Dict(WeightsOf(<<30, 25, 20, 15, 5>>)),
     Dict([default_weights EXCEPT ![CriteriaOrder[1]] = Str])}

InitRank ==
    /\ op = "idle"
    /\ analyses \in UNION {[1..n -> RankCards \cup MalformedRankCards] : n \in 0..MaxSuppliers}
    /\ weights \in RankWeights \cup InvalidRankWeights
    /\ RankIdle
    /\ analysis = NoCard
    /\ ret = NoReturn
    /\ ParserIdle
    /\ RunIdle

RankSuppliers ==
    /\ op = "idle"
    /\ op' = "rank_suppliers"
    /\ \E r \in rank_call(analyses, weights) :
          ranked' = r.value /\ rank_raised' = r.raised /\ analyses' = r.inputs
    /\ UNCHANGED <<analysis, weights, ret, summary, parserVars, runVars>>

GenerateSummaryStatistics ==
    /\ op = "rank_suppliers"
    /\ op' = "generate_summary_statistics"
    /\ \E st \in generate_summary_statistics(ranked) :
          summary' = [called |-> TRUE, stats |-> st]
    /\ UNCHANGED <<analysis, weights, ret, analyses, ranked, rank_raised, parserVars, runVars>>

NextRank == RankSuppliers \/ GenerateSummaryStatistics

SpecRank == InitRank /\ [][NextRank]_vars

\* the input fields of a ranked entry
InputOf(r) == [k \in DOMAIN r \ {"weighted_score", "rank"} |-> r[k]]

Orderings(n) == {p \in [1..n -> 1..n] : \A i, j \in 1..n : p[i] = p[j] => i = j}

----------------------------------------------------------------------------
(* Ranking: errors and the empty list *)

\* calculate_weighted_score has nothing to compute a score from
Unscorable(a) ==
    \/ ~a.criteria_scores.isdict
    \/ \E c \in Criteria : EntryOf(a.criteria_scores, c).kind # "dict"
    \/ \E c \in Criteria : ScoreOf(EntryOf(a.criteria_scores, c)).kind # "num"

\* C11: when calculate_weighted_score fails for a scorecard of the input
\* (criteria_scores malformed, a criterion missing, a score not a number),
\* rank_suppliers raises to its caller and returns no list.
C11_ScoringErrorsPropagate ==
    ( /\ op = "rank_suppliers"
      /\ weights \in RankWeights
      /\ \E i \in 1..Len(analyses) : Unscorable(analyses[i]) )
    => rank_raised

\* C17: rank_suppliers of the empty list returns the empty list and raises
\* nothing, whatever the weights.
C17_EmptyInEmptyOut ==
    (op = "rank_suppliers" /\ analyses = << >>) => (ranked = << >> /\ ~rank_raised)

\* the empty list was ranked with weights that do not validate
C17_Witness ==
    /\ op = "rank_suppliers"
    /\ analyses = << >>
    /\ weights \in InvalidRankWeights
    /\ ranked = << >>

\* C12: validate_weights rejects, with a non-empty reason, every weight map
\* that leaves out one of the five criteria or holds a weight that is no
\* number, also when the weights present total 100.
C12_IncompleteWeightsRejected ==
    ( /\ op = "validate_weights"
      /\ weights.given
      /\ \/ DOMAIN weights.map # Criteria
         \/ \E c \in DOMAIN weights.map : weights.map[c].kind # "num" )
    => (~ret.valid /\ ret.reason # "")


----------------------------------------------------------------------------
(* Summary statistics of a ranked list *)

\* generate_summary_statistics was called on a non-empty list
Summarized == op = "generate_summary_statistics" /\ summary.called /\ ranked # << >>

\* the weighted scores of the ranked list, in hundredths
RankedScores == [i \in 1..Len(ranked) |-> ranked[i].weighted_score]

\* C18: for a non-empty ranked list the statistics give total_suppliers =
\* the number of results, highest_score = the largest and lowest_score = the
\* smallest weighted_score, score_range = highest - lowest, and average_score
\* = the mean of the weighted scores rounded to 2 decimals, so that lowest <=
\* average <= highest.
C18_SummaryAggregates ==
    Summarized =>
        LET st == summary.stats
            n == Len(ranked)
            total == SumOver(RankedScores, 1..n)
        IN  /\ st.total_suppliers = n
            /\ \E i \in 1..n : st.highest_score = RankedScores[i]
            /\ \A i \in 1..n : RankedScores[i] <= st.highest_score
            /\ \E i \in 1..n : st.lowest_score = RankedScores[i]
            /\ \A i \in 1..n : st.lowest_score <= RankedScores[i]
            /\ st.score_range = st.highest_score - st.lowest_score
            /\ 2 * Abs(n * st.average_score - total) <= n
            /\ st.lowest_score <= st.average_score
            /\ st.average_score <= st.highest_score

\* three suppliers with three different scores, the mean not a whole hundredth
C18_Witness ==
    /\ Summarized
    /\ Len(ranked) = 3
    /\ ranked[1].weighted_score > ranked[2].weighted_score
    /\ ranked[2].weighted_score > ranked[3].weighted_score
    /\ SumOver(RankedScores, 1..3) % 3 = 2
    /\ summary.stats.average_score * 3 = SumOver(RankedScores, 1..3) + 1

\* the bucket a score in hundredths belongs to
BucketOf(x) ==
    IF x >= 8000 THEN "excellent" ELSE IF x >= 6000 THEN "good"
    ELSE IF x >= 4000 THEN "fair" ELSE "poor"

C20_TopSupplierIsRankOne ==
    Summarized =>
        /\ \E i \in 1..Len(ranked) :
              /\ ranked[i].rank = 1
              /\ summary.stats.top_supplier = ranked[i].supplier_name
              /\ summary.stats.top_score = ranked[i].weighted_score
        /\ summary.stats.top_score = summary.stats.highest_score

\* B, handed in last, holds rank 1 and is named top supplier
C20_Witness ==
    /\ Summarized
    /\ Len(analyses) = 3
    /\ analyses[3].supplier_name = Text("Supplier B")
    /\ ranked[1].rank = 1
    /\ ranked[1].weighted_score > ranked[2].weighted_score
    /\ summary.stats.top_supplier = Text("Supplier B")


\* C21: generate_summary_statistics of the empty list raises nothing and
\* returns a record in which total_suppliers, average_score, highest_score,
\* lowest_score, score_range, top_score and each bucket of score_distribution
\* are zero, and which names no top supplier.
C21_EmptySummaryAllZero ==
    (op = "generate_summary_statistics" /\ summary.called /\ ranked = << >>) =>
        LET st == summary.stats
        IN  /\ {"total_suppliers", "average_score", "highest_score", "lowest_score",
                "score_range", "top_score", "score_distribution"} \subseteq DOMAIN st
            /\ st.total_suppliers = 0
            /\ st.average_score = 0
            /\ st.highest_score = 0
            /\ st.lowest_score = 0
            /\ st.score_range = 0
            /\ st.top_score = 0
            /\ st.score_distribution = [excellent |-> 0, good |-> 0, fair |-> 0, poor |-> 0]
            /\ "top_supplier" \notin DOMAIN st

\* C22: rank_suppliers leaves the list it is given as it was: same length,
\* same order, no scorecard with a field added or changed; the results are
\* new records.
C22_RankLeavesInputs == [][analyses' = analyses]_vars

\* three scorecards were ranked, the last one first, and none of the three
\* input records holds a rank or a weighted_score
C22_Witness ==
    /\ op = "rank_suppliers"
    /\ Len(analyses) = 3
    /\ Len(ranked) = 3
    /\ ranked[1].supplier_name = analyses[3].supplier_name
    /\ ranked[1].weighted_score > ranked[2].weighted_score
    /\ \A i \in 1..3 : DOMAIN analyses[i] \cap {"rank", "weighted_score"} = {}


----------------------------------------------------------------------------
(* The parser harness: one call of _parse_json_response *)

Bodies == DOMAIN Decoding \cup DOMAIN DecodeErrors

\* whitespace, an opening fence, a body, a closing fence, whitespace: each
\* present or not
ParserTexts ==
    {lead \o open \o body \o close \o trail :
        lead \in {<< >>, <<"space">>, <<"newline">>},
        open \in {<< >>, FenceJson, FenceJson \o <<"newline">>, Fence, Fence \o <<"newline">>},
        body \in {<< >>} \cup {<<b>> : b \in Bodies},
        close \in {<< >>, Fence, <<"newline">> \o Fence},
        trail \in {<< >>, <<"newline">>}}

InitParse ==
    /\ response \in {Content(t) : t \in ParserTexts} \cup {NoContent}
    /\ parsed = NoParse
    /\ ScorerIdle
    /\ weights = None
    /\ analyses = << >>
    /\ RankIdle
    /\ RunIdle

ParseJsonResponse ==
    /\ op = "idle"
    /\ op' = "parse_json_response"
    /\ parsed' = [called |-> TRUE, out |-> parse_json_response(response)]
    /\ UNCHANGED <<analysis, weights, ret, analyses, rankVars, response, runVars>>

NextParse == ParseJsonResponse

SpecParse == InitParse /\ [][NextParse]_vars

\* C6: for a response text that does not decode as JSON after cleaning,
\* _parse_json_response does not raise and returns the fallback scorecard: all
\* five criteria at 50, the "unable to parse" red flag, "manual review
\* required", and the decoder's error text in error.
C6_FallbackOnDecodeError ==
    ( /\ op = "parse_json_response"
      /\ ~response.isnone
      /\ ~json_loads(CleanResponse(response.text)).ok )
    => /\ ~parsed.out.raised
       /\ parsed.out.value.kind = "object"
       /\ LET card == parsed.out.value.obj
          IN  /\ card.criteria_scores.isdict
              /\ DOMAIN card.criteria_scores.items = Criteria
              /\ \A c \in Criteria : card.criteria_scores.items[c] = EntryDict(Num(50))
              /\ card.red_flags = Text("Unable to parse AI response")
              /\ card.recommendations = Text("Manual review required")
              /\ card.error = json_loads(CleanResponse(response.text)).err

\* a fenced object cut off before its closing braces was parsed
C6_Witness ==
    /\ op = "parse_json_response"
    /\ response = Content(FenceJson \o <<"newline", "{truncated object">>)
    /\ parsed.called
    /\ parsed.out.value.obj.error = Text("Expecting , delimiter")

----------------------------------------------------------------------------
(* A run of display_analysis_section over the uploaded proposals *)

\* app.py validate_weights: abs(total - 100.0) < 0.01
app_validate_weights(w) ==
    Abs(SumOver([c \in DOMAIN w.map |-> w.map[c].v], DOMAIN w.map) - 100 * WeightScale) * 100
        < WeightScale

\* display_sidebar: the sliders' values replace the stored weights if they
\* validate, otherwise the stored weights stay
display_sidebar_unchecked(stored, sl) == Dict(sl)

display_sidebar(stored, sl) == IF app_validate_weights(Dict(sl)) THEN Dict(sl) ELSE stored

\* for i, proposal in enumerate(supplier_proposals): the loop has gone
\* through all n proposals when it is to take the i-th (1-based) with i > n
LoopDone_one_early(i, n) == i >= n

LoopDone(i, n) == i > n

\* results.append(result)
CollectResult_successes_only(rs, card) ==
    IF card.status = Text("error") THEN rs ELSE Append(rs, card)

CollectResult(rs, card) == Append(rs, card)

\* what the model can answer: the object, bare and fenced; a truncated
\* object; an array; a message without content
RunContents ==
    {Content(<<"{object A}">>),
     Content(FenceJson \o <<"newline", "{object A}", "newline">> \o Fence),
     Content(<<"{truncated object">>),
     Content(<<"[array]">>),
     NoContent}

\* why a request can fail
Causes == {"Request timed out", "Rate limit exceeded"}

InitRun ==
    /\ pc = "ready"
    /\ proposals \in {[k \in 1..n |-> [name |-> ToString(k)]] : n \in 1..MaxSuppliers}
    /\ weights \in {Dict(default_weights), Dict(WeightsOf(<<20, 20, 20, 20, 20>>))}
    /\ idx = 0
    /\ results = << >>
    /\ analysed = << >>
    /\ attempt = 0
    /\ call_log = << >>
    /\ sleeps = << >>
    /\ api_ret = NoApiReturn
    /\ failed = {}
    /\ cancel_at = 0
    /\ sliders = weights.map
    /\ analyses = << >>
    /\ RankIdle
    /\ ScorerIdle
    /\ ParserIdle

\* the button of line 234, behind the guards of lines 221-231
StartAnalysis ==
    /\ pc = "ready"
    /\ proposals # << >>
    /\ app_validate_weights(display_sidebar(weights, sliders))
    /\ weights' = display_sidebar(weights, sliders)
    /\ pc' = "loop"
    /\ idx' = 1
    /\ results' = << >>
    /\ UNCHANGED <<scorerVars, parserVars, analyses, rankVars, proposals, analysed,
                   attempt, call_log, sleeps, api_ret, failed, cancel_at, sliders>>

\* the loop takes the next proposal: analyze_proposal builds the prompt and
\* enters _make_api_call
BeginAnalysis ==
    /\ pc = "loop"
    /\ ~LoopDone(idx, Len(proposals))
    /\ analysed' = Append(analysed, idx)
    /\ attempt' = 0
    /\ call_log' = << >>
    /\ sleeps' = << >>
    /\ api_ret' = NoApiReturn
    /\ pc' = "request"
    /\ UNCHANGED <<scorerVars, parserVars, weights, analyses, rankVars, proposals, idx,
                   results, failed, cancel_at, sliders>>

\* _make_api_call has ended with `api`: analyze_proposal finishes, and the
\* loop appends its scorecard; an exception of analyze_proposal would reach
\* the handler of app.py:268
FinishAnalysis(api) ==
    LET r == analyze_proposal(proposals[idx].name, api)
    IN  /\ api_ret' = api
        /\ failed' = IF api.raised THEN failed \cup {idx} ELSE failed
        /\ IF r.raised
           THEN pc' = "failed" /\ UNCHANGED <<results, idx>>
           ELSE /\ results' = CollectResult(results, r.card)
                /\ idx' = idx + 1
                /\ pc' = "loop"

\* a request is sent and answered
RequestSucceeds ==
    /\ pc = "request"
    /\ \E content \in RunContents :
          /\ call_log' = Append(call_log, Request(attempt, TRUE, content, ""))
          /\ FinishAnalysis(ApiReturn(content))
    /\ UNCHANGED <<scorerVars, parserVars, weights, analyses, rankVars, proposals, analysed,
                   attempt, sleeps, cancel_at, sliders>>

\* a request is sent and fails: sleep and go round again, or raise
RequestFails ==
    /\ pc = "request"
    /\ \E cause \in Causes :
          /\ call_log' = Append(call_log, Request(attempt, FALSE, NoContent, cause))
          /\ IF ShouldRetry(attempt)
             THEN /\ sleeps' = Append(sleeps, BackoffDelay(attempt))
                  /\ attempt' = attempt + 1
                  /\ IF InRange(attempt + 1)
                     THEN UNCHANGED <<pc, results, idx, api_ret, failed>>
                     ELSE FinishAnalysis(ApiRaise(AllFailedText))
             ELSE /\ FinishAnalysis(ApiRaise(ApiErrorText(cause)))
                  /\ UNCHANGED <<sleeps, attempt>>
    /\ UNCHANGED <<scorerVars, parserVars, weights, analyses, rankVars, proposals, analysed,
                   cancel_at, sliders>>

\* behind the loop: scorer.rank_suppliers(results, evaluation_weights)
RankResults ==
    /\ pc = "loop"
    /\ LoopDone(idx, Len(proposals))
    /\ analyses' = results
    /\ \E r \in rank_call(results, weights) :
          ranked' = r.value /\ rank_raised' = r.raised /\ results' = r.inputs
    /\ UNCHANGED summary
    /\ pc' = "done"
    /\ UNCHANGED <<scorerVars, parserVars, weights, proposals, idx, analysed,
                   attempt, call_log, sleeps, api_ret, failed, cancel_at, sliders>>

\* the user asks to cancel the run while a proposal is being analysed; no
\* statement of the loop reads the request
RequestCancel ==
    /\ pc = "request"
    /\ cancel_at = 0
    /\ cancel_at' = idx
    /\ UNCHANGED <<scorerVars, parserVars, weights, analyses, rankVars, pc, proposals, idx,
                   results, analysed, attempt, call_log, sleeps, api_ret, failed, sliders>>

NextRun == StartAnalysis \/ BeginAnalysis \/ RequestSucceeds \/ RequestFails \/ RankResults

SpecRun == InitRun /\ [][NextRun]_vars

----------------------------------------------------------------------------
(* A session of the app: the sidebar's sliders, then a run *)

\* a session is modelled with at most MaxSessionSuppliers proposals uploaded
MaxSessionSuppliers == 2

\* the positions a slider is moved between, in whole points
SliderStops == {25, 30}

\* the sliders the user moves
MovedSliders == {CriteriaOrder[1], CriteriaOrder[2]}

\* initialize_session_state, with the proposals uploaded
InitSession ==
    /\ pc = "ready"
    /\ proposals \in {[k \in 1..n |-> [name |-> ToString(k)]] : n \in 1..MaxSessionSuppliers}
    /\ weights = Dict(default_weights)
    /\ sliders = default_weights
    /\ idx = 0
    /\ results = << >>
    /\ analysed = << >>
    /\ attempt = 0
    /\ call_log = << >>
    /\ sleeps = << >>
    /\ api_ret = NoApiReturn
    /\ failed = {}
    /\ cancel_at = 0
    /\ analyses = << >>
    /\ RankIdle
    /\ ScorerIdle
    /\ ParserIdle

\* the user moves one slider; the script runs again and display_sidebar
\* stores the sliders' values if they validate
MoveSlider ==
    /\ pc = "ready"
    /\ \E c \in MovedSliders, v \in SliderStops :
          /\ sliders[c] # Points(v)
          /\ sliders' = [sliders EXCEPT ![c] = Points(v)]
          /\ weights' = display_sidebar(weights, sliders')
    /\ UNCHANGED <<scorerVars, parserVars, analyses, rankVars, pc, proposals, idx, results,
                   analysed, attempt, call_log, sleeps, api_ret, failed, cancel_at>>

NextSession ==
    \/ MoveSlider \/ StartAnalysis \/ BeginAnalysis \/ RequestSucceeds \/ RequestFails
    \/ RankResults \/ RequestCancel

SpecSession == InitSession /\ [][NextSession]_vars

\* C4: one _make_api_call sends between 1 and 3 requests; it returns the
\* response of the first request that succeeds and sends none after it; when
\* 3 requests have failed it sends no fourth and raises an error that carries
\* the cause of the third failure.
C4_RetryPolicy ==
    /\ Len(call_log) <= 3
    /\ \A k \in 1..Len(call_log) :
          /\ call_log[k].attempt = k - 1
          /\ call_log[k].ok => k = Len(call_log)
    /\ (pc = "request") => (~api_ret.ended /\ \A k \in 1..Len(call_log) : ~call_log[k].ok)
    /\ api_ret.ended =>
          /\ Len(call_log) >= 1
          /\ IF api_ret.raised
             THEN /\ Len(call_log) = 3
                  /\ \A k \in 1..3 : ~call_log[k].ok
                  /\ \E j \in 1..Len(api_ret.error) : api_ret.error[j] = call_log[3].cause
             ELSE /\ call_log[Len(call_log)].ok
                  /\ api_ret.content = call_log[Len(call_log)].content

\* three requests failed, the first for another reason than the last
C4_Witness ==
    /\ api_ret.ended /\ api_ret.raised
    /\ Len(call_log) = 3
    /\ call_log[1].cause # call_log[3].cause
    /\ api_ret.error = ApiErrorText(call_log[3].cause)

\* C5: analyze_proposal never raises; when the request has failed for good it
\* returns a scorecard with status error, all five criteria at 0, the
\* caller's supplier name, and the exception's message in error and in
\* overall_summary.
C5_ErrorScorecard ==
    /\ pc # "failed"
    /\ (api_ret.ended /\ api_ret.raised) =>
          /\ Len(results) = idx - 1
          /\ idx >= 2
          /\ LET card == results[idx - 1]
             IN  /\ card.status = Text("error")
                 /\ card.criteria_scores.isdict
                 /\ DOMAIN card.criteria_scores.items = Criteria
                 /\ \A c \in Criteria : card.criteria_scores.items[c].score = Num(0)
                 /\ card.supplier_name = Text(proposals[idx - 1].name)
                 /\ card.error = api_ret.error
                 /\ Len(card.overall_summary) > Len(api_ret.error)
                 /\ SubSeq(card.overall_summary,
                           Len(card.overall_summary) - Len(api_ret.error) + 1,
                           Len(card.overall_summary)) = api_ret.error

\* the second supplier's request failed for good and its scorecard was collected
C5_Witness ==
    /\ api_ret.ended /\ api_ret.raised
    /\ idx = 3
    /\ Len(results) = 2
    /\ results[2].status = Text("error")
    /\ results[1].status = Text("success")

\* C7: every proposal is analysed exactly once, in input order; rank_suppliers
\* is handed exactly one scorecard per proposal, in that order; a supplier
\* whose request failed contributes a scorecard with status error and the
\* suppliers behind it are analysed all the same.
C7_BatchContainsFailures ==
    /\ pc # "failed"
    /\ analysed = [k \in 1..Len(analysed) |-> k]
    /\ pc \in {"loop", "done"} => (Len(analysed) = idx - 1 /\ Len(results) = idx - 1)
    /\ pc = "request" => (Len(analysed) = idx /\ Len(results) = idx - 1)
    /\ \A k \in 1..Len(results) : results[k].supplier_name = Text(proposals[k].name)
    /\ \A k \in failed : k <= Len(results) /\ results[k].status = Text("error")
    /\ pc = "done" =>
          /\ Len(analysed) = Len(proposals)
          /\ Len(analyses) = Len(proposals)
          /\ analyses = results
          /\ Len(ranked) = Len(proposals)

\* of three suppliers the second failed, and all three were handed to the ranking
C7_Witness ==
    /\ pc = "done"
    /\ Len(proposals) = 3
    /\ failed = {2}
    /\ Len(analyses) = 3
    /\ analyses[2].status = Text("error")
    /\ analyses[3].status = Text("success")

----------------------------------------------------------------------------
(* What analyze_proposal makes of an answered request *)

\* the latest request was answered with text that decodes to an object
AnsweredWithObject ==
    /\ api_ret.ended /\ ~api_ret.raised
    /\ ~api_ret.content.isnone
    /\ json_loads(CleanResponse(api_ret.content.text)).ok
    /\ json_loads(CleanResponse(api_ret.content.text)).value.kind = "object"

\* the object the latest answer decodes to, and the scorecard made of it
AnsweredPayload == json_loads(CleanResponse(api_ret.content.text)).value.obj
LatestCard == results[Len(results)]

\* C13: when the model answers with a well-formed JSON object, the scorecard
\* analyze_proposal returns holds every field of the object with the
\* object's value, a supplier_name given in the object included, and in
\* addition analysis_timestamp, model_used and status.
C13_RoundTrip ==
    AnsweredWithObject =>
        /\ \A f \in DOMAIN AnsweredPayload :
              AnsweredPayload[f] # Absent => LatestCard[f] = AnsweredPayload[f]
        /\ LatestCard.status = Text("success")
        /\ LatestCard.analysis_timestamp = Now
        /\ LatestCard.model_used = Model

\* the latest request was answered with text that does not decode
AnsweredUndecodable ==
    /\ api_ret.ended /\ ~api_ret.raised
    /\ ~api_ret.content.isnone
    /\ ~json_loads(CleanResponse(api_ret.content.text)).ok

\* C15: status = success is set only when the model's output decoded; the
\* fallback scorecard of a parse failure (scores 50, error set) does not
\* reach the caller with status = success.
C15_StatusReflectsFallback ==
    AnsweredUndecodable =>
        /\ LatestCard.error # Absent
        /\ LatestCard.status # Text("success")

----------------------------------------------------------------------------
(* Code fences around a well-formed object *)

\* a JSON object inside an opening fence, with or without the json tag, and
\* a closing fence, with or without whitespace around them
FencedObjects ==
    {[text |-> lead \o open \o <<b>> \o close \o trail, body |-> b] :
        lead \in {<< >>, <<"space">>, <<"newline">>},
        open \in {FenceJson, FenceJson \o <<"newline">>, Fence, Fence \o <<"newline">>},
        b \in {"{object A}", "{object B}"},
        close \in {Fence, <<"newline">> \o Fence},
        trail \in {<< >>, <<"newline">>}}

\* C14: a well-formed JSON object wrapped in a code fence (an opening fence
\* with or without the json tag, and a closing fence), with or without
\* whitespace around it, parses to the scorecard the bare object parses to,
\* never to the fallback scorecard.
C14_FencedObjectDecodes ==
    op = "parse_json_response" =>
        \A fo \in FencedObjects :
            response = Content(fo.text) =>
                /\ ~parsed.out.raised
                /\ parsed.out.value = JsonObject(Decoding[fo.body])

----------------------------------------------------------------------------
(* The waits of _make_api_call *)

\* the requests of the call in progress that failed and were not the last
\* allowed one
FailedBeforeLast == {k \in 1..Len(call_log) : ~call_log[k].ok /\ k < 3}

\* C16: after the failed attempt with 0-based index i that is not the last
\* allowed attempt the call sleeps 2 * 2^i seconds (2 s, then 4 s); it does
\* not sleep before the first attempt, after an attempt that succeeded or
\* after the last failed attempt.
C16_ExponentialBackoff ==
    /\ Len(sleeps) = Cardinality(FailedBeforeLast)
    /\ Len(sleeps) <= 2
    /\ \A k \in 1..Len(sleeps) : sleeps[k] = 2 * (2 ^ (k - 1))
    /\ call_log = << >> => sleeps = << >>

\* three attempts failed: the call slept 2 s and 4 s, and not a third time
C16_Witness ==
    /\ api_ret.ended /\ api_ret.raised
    /\ Len(call_log) = 3
    /\ sleeps = <<2, 4>>

----------------------------------------------------------------------------
(* The order of analysis, ranking and cancellation in a run *)

\* C23: in a run ranking is one step, taken only when a scorecard exists for
\* every proposal of the run; no rank or weighted_score is assigned from a
\* part of the scorecards.
C23_RankAfterAllScorecards ==
    /\ pc \in {"ready", "loop", "request"} =>
          /\ ranked = << >>
          /\ \A k \in 1..Len(results) :
                DOMAIN results[k] \cap {"rank", "weighted_score"} = {}
    /\ pc = "done" =>
          /\ Len(analyses) = Len(proposals)
          /\ Len(ranked) = Len(proposals)
          /\ \A k \in 1..Len(proposals) : analyses[k].supplier_name = Text(proposals[k].name)
          /\ \A k \in 1..Len(ranked) : ranked[k].rank = k

\* three proposals were analysed, the second without success, and then ranked
C23_Witness ==
    /\ pc = "done"
    /\ Len(proposals) = 3
    /\ Len(ranked) = 3
    /\ analyses[2].status = Text("error")
    /\ ranked[3].supplier_name = analyses[2].supplier_name

\* C24: when cancellation is asked for while proposal i is being analysed,
\* the request in flight for i finishes and no analysis of proposal i + 1 or
\* of a later one is started.
C24_CancelBetweenAnalyses ==
    cancel_at > 0 => \A k \in 1..Len(analysed) : analysed[k] <= cancel_at

----------------------------------------------------------------------------
(* The stored weights of a session *)

\* the total of a weight map, in units of 1/WeightScale point
MapTotal(m) == SumOver([c \in DOMAIN m |-> m[c].v], DOMAIN m)

\* C30: in every state of a session the stored weights total 100: they start
\* at the defaults and are replaced by the sliders' values only when these
\* validate.  So the guard of the analysis section lets a run start also
\* when the sliders total something else, and that run is ranked with the
\* stored weights, not with the sliders' values.
C30_StoredWeightsValid ==
    /\ MapTotal(weights.map) = 100 * WeightScale
    /\ app_validate_weights(weights)
    /\ MapTotal(sliders) = 100 * WeightScale => weights.map = sliders
    /\ pc = "done" =>
          \E r \in rank_call(analyses, weights) : ranked = r.value

\* a run started while the sliders showed a total of 105 was ranked with the
\* weights stored before, 25/30/20/15/10
C30_Witness ==
    /\ pc = "done"
    /\ MapTotal(sliders) = 105 * WeightScale
    /\ weights = Dict(WeightsOf(<<25, 30, 20, 15, 10>>))
    /\ Len(ranked) = 2
    /\ ranked[1].weighted_score = 8225

----------------------------------------------------------------------------
(* Ranking with weights that do not validate, and with an empty weight map *)

\* rank_suppliers returned every scorecard at 0.0, in the input order
AllZeroInInputOrder ==
    /\ ~rank_raised
    /\ Len(ranked) = Len(analyses)
    /\ \A i \in 1..Len(ranked) :
          /\ ranked[i].weighted_score = 0
          /\ ranked[i].rank = i
          /\ InputOf(ranked[i]) = analyses[i]

\* C25 as stated: with a weight map that fails validation, rank_suppliers
\* raises nothing and returns all N scorecards, each with weighted_score 0.0,
\* in the input order, with ranks 1..N.
C25_InvalidWeightsRankAllZero ==
    (op = "rank_suppliers" /\ weights.given /\ ~validate_weights(weights).valid)
    => AllZeroInInputOrder

\* C25 amended: with a non-empty weight map that fails validation,
\* rank_suppliers raises nothing and returns all N scorecards, each with
\* weighted_score 0.0, in the input order, with ranks 1..N.  (The empty map
\* fails validation too, but the default weights take its place.)
C25_NonEmptyInvalidWeightsRankAllZero ==
    ( /\ op = "rank_suppliers"
      /\ weights.given /\ DOMAIN weights.map # {}
      /\ ~validate_weights(weights).valid )
    => AllZeroInInputOrder

\* C, B then A, which valid weights rank B, A, C, came back in the input
\* order with a total of 95
C25_Witness ==
    /\ op = "rank_suppliers"
    /\ weights = Dict(WeightsOf(<<30, 25, 20, 15, 5>>))
    /\ Len(analyses) = 3
    /\ analyses[1].supplier_name = Text("Supplier C")
    /\ analyses[2].supplier_name = Text("Supplier B")
    /\ analyses[3].supplier_name = Text("Supplier A")
    /\ Len(ranked) = 3
    /\ \A i \in 1..3 : ranked[i].supplier_name = analyses[i].supplier_name
    /\ \A i \in 1..3 : ranked[i].weighted_score = 0

\* C26: rank_suppliers, and calculate_weighted_score which it calls for every
\* scorecard, given an empty weight map do what they do given no weights: the
\* result is one the call with None gives, and a scorecard with five numeric
\* scores gets the average weighted 30/25/20/15/10.
C26_EmptyMapMeansDefaults ==
    (op = "rank_suppliers" /\ weights.given /\ DOMAIN weights.map = {}) =>
        /\ \E r \in rank_call(analyses, None) : ranked = r.value /\ rank_raised = r.raised
        /\ \A i \in 1..Len(ranked) :
              /\ ranked[i].weighted_score \in
                    {r.value : r \in calculate_weighted_score(InputOf(ranked[i]), None)}
              /\ AllFiveNumeric(ranked[i]) =>
                    IsClampedRounded(ranked[i].weighted_score,
                                     Products(ranked[i], Dict(default_weights)),
                                     100 * WeightScale)

\* A then B were ranked with the empty map: B first with 84.25, A with 77.75
C26_Witness ==
    /\ op = "rank_suppliers"
    /\ weights.given /\ DOMAIN weights.map = {}
    /\ Len(analyses) = 2
    /\ analyses[1].supplier_name = Text("Supplier A")
    /\ analyses[2].supplier_name = Text("Supplier B")
    /\ Len(ranked) = 2
    /\ ranked[1].supplier_name = Text("Supplier B") /\ ranked[1].weighted_score = 8425
    /\ ranked[2].supplier_name = Text("Supplier A") /\ ranked[2].weighted_score = 7775

----------------------------------------------------------------------------
(* Scoring a scorecard with an entry that is no dict *)

\* the weighted criteria whose entry is present and is no dict
BareEntries(a, wts) ==
    {c \in DOMAIN wts \cap DOMAIN a.criteria_scores.items :
        a.criteria_scores.items[c].kind = "nondict"}

\* calculate_weighted_score was called with weights that validate on a
\* scorecard with an entry that is no dict, its other scores numbers
ScoredWithBareEntry ==
    /\ op = "calculate_weighted_score"
    /\ validate_weights(Dict(EffectiveWeights(weights))).valid
    /\ analysis.criteria_scores.isdict
    /\ BareEntries(analysis, EffectiveWeights(weights)) # {}
    /\ \A c \in DOMAIN EffectiveWeights(weights) \ BareEntries(analysis, EffectiveWeights(weights)) :
          ScoreOf(EntryOf(analysis.criteria_scores, c)).kind = "num"

\* C27: when the entry of a weighted criterion is present and is no dict,
\* calculate_weighted_score leaves that criterion out of the weighted sum and
\* of the total weight, and returns the average of the other criteria over
\* their combined weight, clamped to [0, 100] and rounded; 0.0 when the
\* combined weight of the others is zero or none is left.
C27_BareEntryDropped ==
    ScoredWithBareEntry =>
        LET wts == EffectiveWeights(weights)
            rest == DOMAIN wts \ BareEntries(analysis, wts)
            sum == SumOver([c \in rest |->
                               ScoreOf(EntryOf(analysis.criteria_scores, c)).v * wts[c].v], rest)
            weight == SumOver([c \in rest |-> wts[c].v], rest)
        IN  /\ ~ret.raised
            /\ IF weight = 0 THEN ret.value = 0
               ELSE IsClampedRounded(ret.value, sum, weight)

\* 85/75/90/80/85 with technical_compliance a bare value, default weights:
\* 57.25 / 0.70 = 81.79, not the 57.25 a score of 0 would give
C27_Witness ==
    /\ ScoredWithBareEntry
    /\ weights = Dict(default_weights)
    /\ BareEntries(analysis, default_weights) = {"technical_compliance"}
    /\ ret.value = 8179

----------------------------------------------------------------------------
(* The analyzer harness: one call of analyze_proposal, on every text of the *)
(* parser harness and on a request that fails                               *)

AnalyzeContents == {Content(t) : t \in ParserTexts} \cup {NoContent}

InitAnalyze ==
    /\ pc = "request"
    /\ proposals \in {<<[name |-> n]>> : n \in {"Acme", "Unknown"}}
    /\ idx = 1
    /\ results = << >>
    /\ analysed = <<1>>
    /\ attempt = 0
    /\ call_log = << >>
    /\ sleeps = << >>
    /\ api_ret = NoApiReturn
    /\ failed = {}
    /\ cancel_at = 0
    /\ sliders = default_weights
    /\ weights = Dict(default_weights)
    /\ analyses = << >>
    /\ RankIdle
    /\ ScorerIdle
    /\ ParserIdle

\* the request is answered and analyze_proposal returns
AnalyzeAnswer ==
    /\ pc = "request"
    /\ \E content \in AnalyzeContents :
          /\ call_log' = Append(call_log, Request(attempt, TRUE, content, ""))
          /\ FinishAnalysis(ApiReturn(content))
    /\ UNCHANGED <<scorerVars, parserVars, weights, analyses, rankVars, proposals, analysed,
                   attempt, sleeps, cancel_at, sliders>>

NextAnalyze == AnalyzeAnswer \/ RequestFails

SpecAnalyze == InitAnalyze /\ [][NextAnalyze]_vars

\* the latest request was answered with text that decodes to a JSON value
\* that is no object
AnsweredNonObject ==
    /\ api_ret.ended /\ ~api_ret.raised
    /\ ~api_ret.content.isnone
    /\ json_loads(CleanResponse(api_ret.content.text)).ok
    /\ json_loads(CleanResponse(api_ret.content.text)).value.kind # "object"

\* C28: when the response decodes to a JSON value that is no object (an
\* array, a number, a string, null), analyze_proposal returns the scorecard
\* of a failed analysis: status error, all five criteria at 0, the caller's
\* supplier name and the TypeError's message; not the fallback scorecard of
\* a parse failure (scores 50) and not the decoded value.
C28_NonObjectGivesErrorCard ==
    AnsweredNonObject =>
        /\ pc = "loop"
        /\ Len(results) = 1
        /\ LatestCard.status = Text("error")
        /\ LatestCard.criteria_scores = ScoresDict([c \in Criteria |-> EntryDict(Num(0))])
        /\ LatestCard.supplier_name = Text(proposals[1].name)
        /\ LatestCard.error =
              ItemAssignmentError(json_loads(CleanResponse(api_ret.content.text)).value.kind)
        /\ LatestCard.overall_summary = <<"Analysis failed: ">> \o LatestCard.error
        /\ LatestCard.final_score = Text("0.0")

\* a number inside a json fence was answered
C28_Witness ==
    /\ AnsweredNonObject
    /\ api_ret.content.text = FenceJson \o <<"newline", "7", "newline">> \o Fence
    /\ LatestCard.status = Text("error")
    /\ LatestCard.error = <<"'int'", " object does not support item assignment">>

----------------------------------------------------------------------------
(* Scoring a scorecard whose criteria all carry the same score *)

\* every criterion of the weights in use carries the score sc
UniformAt(a, wts, sc) ==
    /\ a.criteria_scores.isdict
    /\ \A c \in DOMAIN wts :
          /\ c \in DOMAIN a.criteria_scores.items
          /\ a.criteria_scores.items[c] = EntryDict(Num(sc))

\* calculate_weighted_score was called with weights that pass validation
ScoredValid ==
    /\ op = "calculate_weighted_score"
    /\ weights.given /\ DOMAIN weights.map # {}
    /\ validate_weights(weights).valid

\* C29: with weights that pass validation and a scorecard whose weighted
\* criteria all carry the same score sc, 0 <= sc <= 100,
\* calculate_weighted_score returns sc; so the fallback scorecard of a parse
\* failure scores 50 and the scorecard of a failed request scores 0.
C29_UniformScoreIsFixed ==
    ScoredValid =>
        /\ \A sc \in 0..100 :
              UniformAt(analysis, weights.map, sc) => (~ret.raised /\ ret.value = 100 * sc)
        /\ analysis.red_flags = Text("Unable to parse AI response") => ret.value = 5000
        /\ analysis.status = Text("error") => ret.value = 0

\* all five criteria at 100, weights that total 99.992: 100.0, not 99.99
C29_Witness ==
    /\ ScoredValid
    /\ UniformAt(analysis, weights.map, 100)
    /\ DOMAIN weights.map = Criteria
    /\ TotalOf(weights) = 100 * WeightScale - 2
    /\ ret.value = 10000

====
